---------------------------- MODULE Spec2Model ----------------------------
(***************************************************************************)
(* A model of the study-advisor persistence service (src/app.py) and of    *)
(* its HTTP client wrapper (src/database_client.py).                       *)
(*                                                                         *)
(* The service keeps four tables that its endpoints touch (users,          *)
(* user_profiles, chat_messages, usage_stats) and a directory of backup    *)
(* files.  Every endpoint is one action: it reads the request, runs its    *)
(* single SQL statement against the table and leaves a response.           *)
(*                                                                         *)
(* Time is the wall clock in whole seconds: CURRENT_TIMESTAMP and the      *)
(* backup file name both have a resolution of one second, so several       *)
(* requests can be served at the same clock value.                         *)
(***************************************************************************)
EXTENDS Integers, Sequences, FiniteSets, TLC

VARIABLES
    db,               \* TRUE iff the module-level `db` is a DatabaseManager (not None)
    writable,         \* candidate backup directory -> whether a file can be written there
    clock,            \* wall clock, in seconds
    users,            \* rows of table users
    users_seq,        \* sqlite_sequence entry of users (largest id ever given)
    user_profiles,    \* rows of table user_profiles
    profiles_seq,     \* sqlite_sequence entry of user_profiles
    chat_messages,    \* rows of table chat_messages
    usage_stats,      \* rows of table usage_stats
    backup_files,     \* candidate backup directory -> time stamps of the backup files in it
    request,          \* the request served last
    response,         \* the response given to it
    posted_users,     \* history: user_id -> body of the latest successful POST /api/users
    posted_countries, \* history: profile_id -> countries of the latest successful
                      \* POST /api/profiles, while no PUT has written that profile since
    nupdates,         \* history: number of UPDATE statements PUT /api/profiles has run
    backup_log,       \* history: <<directory, time stamp>> of every backup copied
    backup_outcome,   \* history: how the last run of the backup routine ended
    test_write,       \* candidate backup directory -> whether the file test_write is in it
    workers,          \* request thread -> where its run of the backup routine stands
    environ,          \* DATABASE_SERVICE_URL in the client's environment, "" when unset
    client,           \* the DatabaseClient a caller constructed last
    result            \* what the client's last call gave its caller

envVars == <<db, writable, environ>>
clientVars == <<client, result>>
userVars == <<users, users_seq, posted_users>>
profileVars == <<user_profiles, profiles_seq, posted_countries, nupdates>>
messageVars == <<chat_messages>>
statVars == <<usage_stats>>
backupVars == <<backup_files, backup_log, backup_outcome, test_write, workers>>
tables == <<users, users_seq, user_profiles, profiles_seq, chat_messages, usage_stats>>

vars == <<envVars, clientVars, clock, userVars, profileVars, messageVars, statVars, backupVars,
          request, response>>

(***************************************************************************)
(* Bounds of the model.                                                    *)
(***************************************************************************)
MaxClock == 2
MaxUserWrites == 3
MaxProfileWrites == 2
MaxProfileUpdates == 1
MaxUpdateClock == 1
MaxBackups == 7
MaxBackupClock == 6
MaxFailBackups == 2
MaxFailClock == 1
MaxWorkers == 2
MaxResaves == 3
MaxResaveUsers == 2
MaxAllWrites == 2
MaxAllClock == 1
MaxMessages == 3
MaxMessageClock == 1
MaxStats == 3
MaxStatClock == 4
\* the scale of time: seconds in a day, and days between the first instant
\* SQLite's datetime() represents and clock 0
SecondsPerDay == 2
EpochDays == 40

(***************************************************************************)
(* JSON / Python / SQLite values.  A value is a tuple: its type, then its  *)
(* content; None, JSON null and SQL NULL are the same value.               *)
(***************************************************************************)
JNull == <<"null">>
JStr(s) == <<"str", s>>
JNum(n) == <<"num", n>>
JList(xs) == <<"list", xs>>
JEmptyDict == <<"dict">>
TypeOf(v) == v[1]
ValueOf(v) == v[2]

EmptyDict == [k \in {} |-> JNull]

\* request.get_json(): a body that is a JSON object, or one that is not
Obj(d) == [isobj |-> TRUE, d |-> d]
NotObj == [isobj |-> FALSE, d |-> EmptyDict]

\* dict.get(key, default)
DictGet(d, k, default) == IF k \in DOMAIN d THEN d[k] ELSE default

\* sqlite3 binds None, int, float and str; a list or dict parameter raises
Bindable(v) == TypeOf(v) \in {"null", "str", "num"}

(***************************************************************************)
(* json.dumps and json.loads, on texts that are sequences of characters.   *)
(* A JSON string holds a sequence of characters; NonAscii stands for one   *)
(* character outside ASCII (U+00E9), which dumps writes as \u00e9.         *)
(***************************************************************************)
NonAscii == "U+00E9"
NonAsciiEscape == <<"\\", "u", "0", "0", "e", "9">>

RECURSIVE Digits(_)
Digits(n) ==
    IF n < 10 THEN <<CHOOSE c \in {"0","1","2","3","4","5","6","7","8","9"} :
                        c = <<"0","1","2","3","4","5","6","7","8","9">>[n + 1]>>
    ELSE Digits(n \div 10) \o Digits(n % 10)

\* the body of a JSON string: quote and backslash escaped, non-ASCII as \uXXXX
RECURSIVE EscapeChars(_)
EscapeChars(s) ==
    IF s = <<>> THEN <<>>
    ELSE LET c == Head(s)
         IN (IF c = "\"" THEN <<"\\", "\"">>
             ELSE IF c = "\\" THEN <<"\\", "\\">>
             ELSE IF c = NonAscii THEN NonAsciiEscape
             ELSE <<c>>) \o EscapeChars(Tail(s))

RECURSIVE JsonDumps(_)
RECURSIVE DumpItems(_)
\* the items of a list, separated by ", " (json.dumps' default separators)
DumpItems(xs) ==
    IF xs = <<>> THEN <<>>
    ELSE IF Len(xs) = 1 THEN JsonDumps(xs[1])
    ELSE JsonDumps(xs[1]) \o <<",", " ">> \o DumpItems(Tail(xs))

JsonDumps(v) ==
    CASE TypeOf(v) = "null" -> <<"n", "u", "l", "l">>
      [] TypeOf(v) = "num"  -> Digits(ValueOf(v))
      [] TypeOf(v) = "str"  -> <<"\"">> \o EscapeChars(ValueOf(v)) \o <<"\"">>
      [] TypeOf(v) = "list" -> <<"[">> \o DumpItems(ValueOf(v)) \o <<"]">>
      [] TypeOf(v) = "dict" -> <<"{", "}">>

ParseFail == [ok |-> FALSE, val |-> JNull, next |-> 0]
Parsed(v, next) == [ok |-> TRUE, val |-> v, next |-> next]

RECURSIVE SkipWs(_, _)
SkipWs(txt, i) ==
    IF i <= Len(txt) /\ txt[i] = " " THEN SkipWs(txt, i + 1) ELSE i

\* the characters of a string up to its closing quote; i is past the opening one
RECURSIVE ParseChars(_, _, _)
ParseChars(txt, i, acc) ==
    IF i > Len(txt) THEN ParseFail
    ELSE IF txt[i] = "\"" THEN Parsed(JStr(acc), i + 1)
    ELSE IF txt[i] = "\\"
      THEN IF i + 1 > Len(txt) THEN ParseFail
           ELSE IF txt[i + 1] \in {"\"", "\\", "/"}
             THEN ParseChars(txt, i + 2, Append(acc, txt[i + 1]))
           ELSE IF /\ i + 5 <= Len(txt)
                   /\ SubSeq(txt, i, i + 5) = NonAsciiEscape
             THEN ParseChars(txt, i + 6, Append(acc, NonAscii))
           ELSE ParseFail
    ELSE ParseChars(txt, i + 1, Append(acc, txt[i]))

RECURSIVE ParseDigits(_, _, _)
ParseDigits(txt, i, acc) ==
    IF i <= Len(txt) /\ txt[i] \in {"0","1","2","3","4","5","6","7","8","9"}
      THEN ParseDigits(txt, i + 1,
               10 * acc + (CHOOSE d \in 0..9 : Digits(d) = <<txt[i]>>))
      ELSE Parsed(JNum(acc), i)

RECURSIVE ParseValue(_, _)
RECURSIVE ParseItems(_, _, _)
\* the items of an array after "[" or ","; i is at the start of an item
ParseItems(txt, i, acc) ==
    LET item == ParseValue(txt, i)
        j == SkipWs(txt, item.next)
    IN IF ~item.ok \/ j > Len(txt) THEN ParseFail
       ELSE IF txt[j] = "," THEN ParseItems(txt, j + 1, Append(acc, item.val))
       ELSE IF txt[j] = "]" THEN Parsed(JList(Append(acc, item.val)), j + 1)
       ELSE ParseFail

ParseValue(txt, i0) ==
    LET i == SkipWs(txt, i0)
    IN IF i > Len(txt) THEN ParseFail
       ELSE IF txt[i] = "\"" THEN ParseChars(txt, i + 1, <<>>)
       ELSE IF txt[i] = "["
         THEN LET j == SkipWs(txt, i + 1)
              IN IF j <= Len(txt) /\ txt[j] = "]"
                   THEN Parsed(JList(<<>>), j + 1)
                   ELSE ParseItems(txt, i + 1, <<>>)
       ELSE IF i + 3 <= Len(txt) /\ SubSeq(txt, i, i + 3) = <<"n", "u", "l", "l">>
         THEN Parsed(JNull, i + 4)
       ELSE IF txt[i] \in {"0","1","2","3","4","5","6","7","8","9"}
         THEN ParseDigits(txt, i, 0)
       ELSE ParseFail

\* json.loads: the value, or ok = FALSE where it raises
JsonLoads(txt) ==
    LET r == ParseValue(txt, 1)
    IN IF r.ok /\ SkipWs(txt, r.next) > Len(txt)
         THEN [ok |-> TRUE, val |-> r.val]
         ELSE [ok |-> FALSE, val |-> JNull]

(***************************************************************************)
(* Timestamps.  CURRENT_TIMESTAMP is UTC 'YYYY-MM-DD HH:MM:SS';            *)
(* datetime.now().isoformat() is local time 'YYYY-MM-DDTHH:MM:SS.ffffff'.  *)
(***************************************************************************)
CurrentTimestamp == [fmt |-> "sql", t |-> clock]
IsoNow == [fmt |-> "iso", t |-> clock]

(***************************************************************************)
(* Responses: jsonify(body), status.                                       *)
(***************************************************************************)
Resp(op, status, body) == [op |-> op, status |-> status, body |-> body]
\* a failure body returned without its status: Flask then answers 200
FailureNoStatus(op, status, err) == Resp(op, 200, [ok |-> FALSE, error |-> err])
Failure(op, status, err) == Resp(op, status, [ok |-> FALSE, error |-> err])
Message(op, msg) == Resp(op, 200, [ok |-> TRUE, message |-> msg])
Data(op, data) == Resp(op, 200, [ok |-> TRUE, data |-> data])
Unavailable(op) == Failure(op, 500, "Database not available")

Req(op, key, body) == [op |-> op, key |-> key, body |-> body]

(***************************************************************************)
(* INSERT OR REPLACE on a table with a UNIQUE business key: the row that   *)
(* holds the key is deleted and the new row inserted.                      *)
(***************************************************************************)
\* INSERT OR IGNORE: the row that holds the key stays
InsertOrIgnore(table, key, row) ==
    IF \E r \in table : r[key] = row[key] THEN table ELSE table \cup {row}

\* an upsert that updates the row that holds the key in place (ON CONFLICT DO
\* UPDATE): the row keeps its id and its created_at
InsertOrUpdate(table, key, row) ==
    IF \E r \in table : r[key] = row[key]
      THEN LET old == CHOOSE r \in table : r[key] = row[key]
           IN (table \ {old}) \cup {[row EXCEPT !.id = old.id, !.created_at = old.created_at]}
      ELSE table \cup {row}

\* REPLACE under a UNIQUE constraint declared on user_id in every table: the
\* rows of the same user are deleted
InsertReplacingUser(table, key, row) ==
    {r \in table : r.user_id # row.user_id} \cup {row}

InsertOrReplace(table, key, row) ==
    {r \in table : r[key] # row[key]} \cup {row}

(***************************************************************************)
(* DatabaseManager.create_backup.  The candidate directories are probed in *)
(* order by writing and removing a test file; the first writable one gets  *)
(* a copy of the database file named after the current second, and all but *)
(* the KeepBackups last names, in sorted order, are removed.  io is what   *)
(* the file system does: "ok", "copy_fails" (shutil.copy2 raises) or       *)
(* "remove_fails" (the first os.remove of an old backup raises).  Every    *)
(* exception is caught and logged.                                         *)
(***************************************************************************)
KeepBackups == 5

BackupDirs == <<"/data/backups", "<db dir>/backups", "./backups">>
BackupDirNames == {BackupDirs[i] : i \in 1..Len(BackupDirs)}

\* the index of the first candidate the probe finds writable, 0 if none
FirstWritable ==
    IF \E i \in 1..Len(BackupDirs) : writable[BackupDirs[i]]
      THEN CHOOSE i \in 1..Len(BackupDirs) :
               /\ writable[BackupDirs[i]]
               /\ \A j \in 1..(i - 1) : ~writable[BackupDirs[j]]
      ELSE 0

\* strftime('%Y%m%d_%H%M%S'): a fixed-width name, one per second
BackupStamp == clock

\* sorted(names)[:-KeepBackups]: all but the KeepBackups largest names
OldBackups(names) ==
    {x \in names : Cardinality({y \in names : y > x}) >= KeepBackups}

\* how the routine ends: without a directory, in the handler of the
\* exception of the copy or of a removal, or at its last statement
BackupOutcome(io) ==
    IF FirstWritable = 0 THEN "no_dir"
    ELSE IF io = "copy_fails" THEN "copy_failed"
    ELSE IF /\ io = "remove_fails"
            /\ OldBackups(backup_files[BackupDirs[FirstWritable]] \cup {BackupStamp}) # {}
      THEN "remove_failed"
    ELSE "done"

\* create_backup with an `except` clause that logs and raises again
CreateBackupReraises(io) == BackupOutcome(io) \in {"copy_failed", "remove_failed"}

\* whether create_backup raises to its caller: `except Exception` logs the
\* exception and the method returns
CreateBackupRaises(io) == FALSE

CreateBackup(io) ==
    /\ backup_outcome' = BackupOutcome(io)
    /\ UNCHANGED <<test_write, workers>>
    /\ IF FirstWritable = 0 \/ io = "copy_fails"
         THEN UNCHANGED <<backup_files, backup_log>>
         ELSE LET dir == BackupDirs[FirstWritable]
                  copied == backup_files[dir] \cup {BackupStamp}
              IN /\ backup_files' =
                       [backup_files EXCEPT ![dir] =
                           IF io = "remove_fails" THEN copied
                           ELSE copied \ OldBackups(copied)]
                 /\ backup_log' = Append(backup_log, <<dir, BackupStamp>>)

(***************************************************************************)
(* POST /api/users                                                         *)
(***************************************************************************)
UserRow(d) ==
    [id |-> users_seq + 1,
     user_id |-> d["userId"],
     email |-> DictGet(d, "email", JNull),
     name |-> DictGet(d, "name", JNull),
     avatar |-> DictGet(d, "avatar", JNull),
     provider |-> DictGet(d, "provider", JStr("google")),
     created_at |-> CurrentTimestamp,
     updated_at |-> IsoNow]

\* the exception save_user's try block raises on this body, or "none"
SaveUserError(b) ==
    IF ~b.isobj THEN "TypeError"
    ELSE IF "userId" \notin DOMAIN b.d THEN "KeyError"
    ELSE IF \E f \in {"user_id", "email", "name", "avatar", "provider"} :
                ~Bindable(UserRow(b.d)[f]) THEN "ProgrammingError"
    ELSE IF UserRow(b.d).user_id = JNull THEN "IntegrityError"
    ELSE "none"

SaveUser(b) ==
    /\ users_seq < MaxUserWrites
    /\ request' = Req("save_user", JNull, b)
    /\ IF ~db
         THEN /\ response' = Unavailable("save_user")
              /\ UNCHANGED <<users, users_seq, posted_users>>
         ELSE IF SaveUserError(b) # "none"
         THEN /\ response' = Failure("save_user", 500, SaveUserError(b))
              /\ UNCHANGED <<users, users_seq, posted_users>>
         ELSE /\ users' = InsertOrReplace(users, "user_id", UserRow(b.d))
              /\ users_seq' = users_seq + 1
              /\ posted_users' =
                    [u \in DOMAIN posted_users \cup {ValueOf(b.d["userId"])} |->
                        IF u = ValueOf(b.d["userId"]) THEN b.d ELSE posted_users[u]]
              /\ response' = Message("save_user", "User saved successfully")
    /\ UNCHANGED <<envVars, clientVars, clock, profileVars, messageVars, statVars, backupVars>>

(***************************************************************************)
(* GET /api/users/<user_id>                                                *)
(***************************************************************************)
GetUser(user_id) ==
    /\ request' = Req("get_user", user_id, NotObj)
    /\ response' =
          IF ~db THEN Unavailable("get_user")
          ELSE LET rows == {r \in users : r.user_id = JStr(user_id)}
               IN IF rows # {}
                    THEN Data("get_user", CHOOSE r \in rows : TRUE)
                    ELSE Failure("get_user", 404, "User not found")
    /\ UNCHANGED <<envVars, clientVars, clock, userVars, profileVars, messageVars, statVars,
                   backupVars>>

(***************************************************************************)
(* POST /api/profiles                                                      *)
(***************************************************************************)
ProfileRow(d) ==
    [id |-> profiles_seq + 1,
     profile_id |-> d["profile_id"],
     user_id |-> d["user_id"],
     user_role |-> DictGet(d, "user_role", JNull),
     student_name |-> DictGet(d, "student_name", JNull),
     student_email |-> DictGet(d, "student_email", JNull),
     parent_name |-> DictGet(d, "parent_name", JNull),
     parent_email |-> DictGet(d, "parent_email", JNull),
     relationship |-> DictGet(d, "relationship", JNull),
     child_name |-> DictGet(d, "child_name", JNull),
     child_email |-> DictGet(d, "child_email", JNull),
     citizenship |-> DictGet(d, "citizenship", JNull),
     gpa |-> DictGet(d, "gpa", JNull),
     degree |-> DictGet(d, "degree", JNull),
     countries |-> JStr(JsonDumps(DictGet(d, "countries", JList(<<>>)))),
     budget |-> DictGet(d, "budget", JNull),
     target_intake |-> DictGet(d, "target_intake", JNull),
     created_at |-> CurrentTimestamp,
     updated_at |-> IsoNow]

\* the columns save_user_profile binds a request value to
ProfileBound ==
    {"profile_id", "user_id", "user_role", "student_name", "student_email",
     "parent_name", "parent_email", "relationship", "child_name", "child_email",
     "citizenship", "gpa", "degree", "countries", "budget", "target_intake"}

\* a schema that lets user_role be NULL
ProfileKeysNotNull == {"profile_id", "user_id"}

\* the columns of user_profiles declared NOT NULL
ProfileNotNull == {"profile_id", "user_id", "user_role"}

\* the exception save_user_profile's try block raises on this body, or "none"
SaveUserProfileError(b) ==
    IF ~b.isobj THEN "TypeError"
    ELSE IF {"profile_id", "user_id"} \ DOMAIN b.d # {} THEN "KeyError"
    ELSE IF \E f \in ProfileBound : ~Bindable(ProfileRow(b.d)[f])
      THEN "ProgrammingError"
    ELSE IF \E f \in ProfileNotNull : ProfileRow(b.d)[f] = JNull
      THEN "IntegrityError"
    ELSE "none"

\* the handler, for any number of rows written before
SaveUserProfileRequest(b, io) ==
    /\ request' = Req("save_user_profile", JNull, b)
    /\ IF ~db
         THEN /\ response' = Unavailable("save_user_profile")
              /\ UNCHANGED <<profileVars, backupVars>>
         ELSE IF SaveUserProfileError(b) # "none"
         THEN /\ response' = Failure("save_user_profile", 500, SaveUserProfileError(b))
              /\ UNCHANGED <<profileVars, backupVars>>
         ELSE /\ user_profiles' =
                    InsertOrReplace(user_profiles, "profile_id", ProfileRow(b.d))
              /\ profiles_seq' = profiles_seq + 1
              /\ posted_countries' =
                    LET pid == ValueOf(b.d["profile_id"])
                    IN [q \in DOMAIN posted_countries \cup {pid} |->
                           IF q = pid THEN DictGet(b.d, "countries", JList(<<>>))
                           ELSE posted_countries[q]]
              /\ CreateBackup(io)
              /\ response' =
                    IF CreateBackupRaises(io)
                      THEN Failure("save_user_profile", 500, "OSError")
                      ELSE Message("save_user_profile", "Profile saved successfully")
              /\ UNCHANGED nupdates
    /\ UNCHANGED <<envVars, clientVars, clock, userVars, messageVars, statVars>>

SaveUserProfile(b, io) ==
    /\ profiles_seq < MaxProfileWrites
    /\ SaveUserProfileRequest(b, io)

(***************************************************************************)
(* GET /api/profiles/<profile_id> and GET /api/users/<user_id>/profiles    *)
(***************************************************************************)
\* Python's truth value of a column value
Truthy(v) ==
    CASE TypeOf(v) = "null" -> FALSE
      [] TypeOf(v) = "str"  -> ValueOf(v) # <<>>
      [] TypeOf(v) = "num"  -> ValueOf(v) # 0
      [] OTHER -> TRUE

\* the column value returned as stored
CountriesUndecoded(cell) == cell

\* the countries list a profile is returned with
DecodeCountries(cell) ==
    IF Truthy(cell)
      THEN LET r == JsonLoads(ValueOf(cell))
           IN IF r.ok THEN r.val ELSE JList(<<>>)
      ELSE JList(<<>>)

ProfileData(row) == [row EXCEPT !.countries = DecodeCountries(row.countries)]

\* a lookup that answers a missing profile with success and no row
GetUserProfileOrNull(profile_id) ==
    /\ request' = Req("get_user_profile", profile_id, NotObj)
    /\ response' =
          IF ~db THEN Unavailable("get_user_profile")
          ELSE LET rows == {r \in user_profiles : r.profile_id = JStr(profile_id)}
               IN IF rows # {}
                    THEN Data("get_user_profile", ProfileData(CHOOSE r \in rows : TRUE))
                    ELSE Data("get_user_profile", JNull)
    /\ UNCHANGED <<envVars, clientVars, clock, userVars, profileVars, messageVars, statVars,
                   backupVars>>

GetUserProfile(profile_id) ==
    /\ request' = Req("get_user_profile", profile_id, NotObj)
    /\ response' =
          IF ~db THEN Unavailable("get_user_profile")
          ELSE LET rows == {r \in user_profiles : r.profile_id = JStr(profile_id)}
               IN IF rows # {}
                    THEN Data("get_user_profile", ProfileData(CHOOSE r \in rows : TRUE))
                    ELSE Failure("get_user_profile", 404, "Profile not found")
    /\ UNCHANGED <<envVars, clientVars, clock, userVars, profileVars, messageVars, statVars,
                   backupVars>>

\* every order ORDER BY created_at DESC can give the rows in: rows of the same
\* second come in an order the statement does not determine
DescOrders(rows) ==
    {s \in [1..Cardinality(rows) -> rows] :
        /\ \A r \in rows : \E i \in DOMAIN s : s[i] = r
        /\ \A i, j \in DOMAIN s : i < j => s[i].created_at.t >= s[j].created_at.t}

GetUserProfiles(user_id) ==
    /\ request' = Req("get_user_profiles", user_id, NotObj)
    /\ IF ~db THEN response' = Unavailable("get_user_profiles")
       ELSE \E s \in DescOrders({r \in user_profiles : r.user_id = JStr(user_id)}) :
               response' = Data("get_user_profiles",
                                [i \in DOMAIN s |-> ProfileData(s[i])])
    /\ UNCHANGED <<envVars, clientVars, clock, userVars, profileVars, messageVars, statVars,
                   backupVars>>

(***************************************************************************)
(* PUT /api/profiles/<profile_id>                                          *)
(***************************************************************************)
\* the fields update_user_profile looks for in the body
UpdatableFields ==
    {"student_name", "student_email", "parent_name", "parent_email",
     "relationship", "child_name", "child_email", "citizenship", "gpa", "degree",
     "countries", "budget", "target_intake", "user_role"}

\* the value the SET clause binds for field f
UpdateValue(d, f) == IF f = "countries" THEN JStr(JsonDumps(d[f])) ELSE d[f]

\* an update that writes every updatable column, NULL where the body names none
ReplacedRow(row, d) ==
    [c \in DOMAIN row |->
        IF c \in UpdatableFields
          THEN (IF c \in DOMAIN d THEN UpdateValue(d, c) ELSE JNull)
        ELSE IF c = "updated_at" THEN IsoNow
        ELSE row[c]]

\* UPDATE user_profiles SET <fields of d>, updated_at = now
UpdatedRow(row, d) ==
    [c \in DOMAIN row |->
        IF c \in UpdatableFields \cap DOMAIN d THEN UpdateValue(d, c)
        ELSE IF c = "updated_at" THEN IsoNow
        ELSE row[c]]

\* the exception update_user_profile's try block raises, or "none"
UpdateUserProfileError(profile_id, b) ==
    IF ~b.isobj THEN "TypeError"
    ELSE IF \E f \in UpdatableFields \cap DOMAIN b.d : ~Bindable(UpdateValue(b.d, f))
      THEN "ProgrammingError"
    ELSE IF /\ \E r \in user_profiles : r.profile_id = JStr(profile_id)
            /\ \E f \in ProfileNotNull \cap UpdatableFields \cap DOMAIN b.d :
                   b.d[f] = JNull
      THEN "IntegrityError"
    ELSE "none"

UpdateUserProfile(profile_id, b) ==
    /\ nupdates < MaxProfileUpdates
    /\ request' = Req("update_user_profile", profile_id, b)
    /\ IF ~db
         THEN /\ response' = Unavailable("update_user_profile")
              /\ UNCHANGED profileVars
         ELSE IF UpdateUserProfileError(profile_id, b) # "none"
         THEN /\ response' = Failure("update_user_profile", 500,
                                     UpdateUserProfileError(profile_id, b))
              /\ UNCHANGED profileVars
         ELSE /\ user_profiles' =
                    {IF r.profile_id = JStr(profile_id) THEN UpdatedRow(r, b.d) ELSE r :
                        r \in user_profiles}
              /\ nupdates' = nupdates + 1
              /\ posted_countries' =
                    [q \in DOMAIN posted_countries \ {profile_id} |-> posted_countries[q]]
              /\ response' = Message("update_user_profile", "Profile updated successfully")
              /\ UNCHANGED profiles_seq
    /\ UNCHANGED <<envVars, clientVars, clock, userVars, messageVars, statVars, backupVars>>

(***************************************************************************)
(* POST /api/backup                                                        *)
(***************************************************************************)
Backup(io) ==
    /\ Len(backup_log) < MaxBackups
    /\ request' = Req("create_backup", JNull, NotObj)
    /\ IF ~db
         THEN /\ response' = Unavailable("create_backup")
              /\ UNCHANGED backupVars
         ELSE /\ CreateBackup(io)
              /\ response' =
                    IF CreateBackupRaises(io)
                      THEN Failure("create_backup", 500, "OSError")
                      ELSE Message("create_backup", "Backup created successfully")
    /\ UNCHANGED <<envVars, clientVars, clock, userVars, profileVars, messageVars, statVars>>

(***************************************************************************)
(* POST /api/backup served by several request threads at once: each thread *)
(* runs create_backup statement by statement.  A thread's record holds its *)
(* position pc, the index i of the candidate it probes, the directory dir  *)
(* it chose ("" for None) and the old backups it listed.                   *)
(***************************************************************************)
Workers == 1..MaxWorkers

IdleWorker == [pc |-> "idle", i |-> 1, dir |-> "", old |-> {}]

\* the thread's record changes and the others stay
WorkerSet(w, rec) == workers' = [workers EXCEPT ![w] = rec]

\* the probe's `except Exception: continue`: the next candidate, or the end
\* of the loop with backup_dir = None
NextCandidate(w) ==
    IF workers[w].i < Len(BackupDirs)
      THEN [workers[w] EXCEPT !.i = @ + 1, !.pc = "probe"]
      ELSE [workers[w] EXCEPT !.pc = "return"]

\* the request arrives
BackupStart(w) ==
    /\ workers[w].pc = "idle"
    /\ request' = Req("create_backup", JNull, NotObj)
    /\ IF ~db
         THEN /\ response' = Unavailable("create_backup")
              /\ WorkerSet(w, [workers[w] EXCEPT !.pc = "done"])
         ELSE /\ WorkerSet(w, [workers[w] EXCEPT !.pc = "probe"])
              /\ UNCHANGED response
    /\ UNCHANGED <<envVars, clientVars, clock, userVars, profileVars, messageVars, statVars,
                   backup_files, backup_log, backup_outcome, test_write>>

\* os.makedirs and open(test_file, 'w') with the write: the file test_write
\* is created, or truncated when it is there
BackupProbe(w) ==
    /\ workers[w].pc = "probe"
    /\ LET d == BackupDirs[workers[w].i]
       IN IF writable[d]
            THEN /\ test_write' = [test_write EXCEPT ![d] = TRUE]
                 /\ WorkerSet(w, [workers[w] EXCEPT !.pc = "remove"])
            ELSE /\ WorkerSet(w, NextCandidate(w))
                 /\ UNCHANGED test_write
    /\ UNCHANGED <<envVars, clientVars, clock, userVars, profileVars, messageVars, statVars,
                   backup_files, backup_log, backup_outcome, request, response>>

\* os.remove(test_file): FileNotFoundError when the file is gone, which the
\* probe's except clause takes for a directory that cannot be used
BackupRemoveTest(w) ==
    /\ workers[w].pc = "remove"
    /\ LET d == BackupDirs[workers[w].i]
       IN IF test_write[d]
            THEN /\ test_write' = [test_write EXCEPT ![d] = FALSE]
                 /\ WorkerSet(w, [workers[w] EXCEPT !.dir = d, !.pc = "copy"])
            ELSE /\ WorkerSet(w, NextCandidate(w))
                 /\ UNCHANGED test_write
    /\ UNCHANGED <<envVars, clientVars, clock, userVars, profileVars, messageVars, statVars,
                   backup_files, backup_log, backup_outcome, request, response>>

\* shutil.copy2 to the file named after the current second
BackupCopy(w) ==
    /\ workers[w].pc = "copy"
    /\ backup_files' =
          [backup_files EXCEPT ![workers[w].dir] = @ \cup {BackupStamp}]
    /\ backup_log' = Append(backup_log, <<workers[w].dir, BackupStamp>>)
    /\ WorkerSet(w, [workers[w] EXCEPT !.pc = "list"])
    /\ UNCHANGED <<envVars, clientVars, clock, userVars, profileVars, messageVars, statVars,
                   backup_outcome, test_write, request, response>>

\* sorted(os.listdir(backup_dir))[:-5]
BackupList(w) ==
    /\ workers[w].pc = "list"
    /\ WorkerSet(w, [workers[w] EXCEPT !.old = OldBackups(backup_files[workers[w].dir]),
                                       !.pc = "prune"])
    /\ UNCHANGED <<envVars, clientVars, clock, userVars, profileVars, messageVars, statVars,
                   backup_files, backup_log, backup_outcome, test_write, request, response>>

\* the loop of os.remove over the listed names, in sorted order: it ends at
\* the first name another thread has removed already, in the outer except
BackupPrune(w) ==
    /\ workers[w].pc = "prune"
    /\ LET dir == workers[w].dir
           gone == workers[w].old \ backup_files[dir]
           removed == {x \in workers[w].old : \A y \in gone : x < y}
       IN backup_files' = [backup_files EXCEPT ![dir] = @ \ removed]
    /\ WorkerSet(w, [workers[w] EXCEPT !.pc = "return"])
    /\ UNCHANGED <<envVars, clientVars, clock, userVars, profileVars, messageVars, statVars,
                   backup_log, backup_outcome, test_write, request, response>>

\* create_backup returns and the handler answers
BackupReturn(w) ==
    /\ workers[w].pc = "return"
    /\ backup_outcome' = IF workers[w].dir = "" THEN "no_dir" ELSE "done"
    /\ response' = Message("create_backup", "Backup created successfully")
    /\ WorkerSet(w, [workers[w] EXCEPT !.pc = "done"])
    /\ UNCHANGED <<envVars, clientVars, clock, userVars, profileVars, messageVars, statVars,
                   backup_files, backup_log, test_write, request>>

(***************************************************************************)
(* Query-string arguments: request.args.get(name, default, type=int) gives *)
(* the default when the argument is absent or is no integer.               *)
(***************************************************************************)
ArgAbsent == <<"absent">>
ArgJunk == <<"junk">>
ArgInt(n) == <<"int", n>>
ArgGet(arg, default) == IF arg[1] = "int" THEN arg[2] ELSE default

DefaultLimit == 100
DefaultDays == 30

(***************************************************************************)
(* POST /api/messages.  Rows are only ever inserted, so the AUTOINCREMENT  *)
(* id of a new row is the number of rows plus one.                         *)
(***************************************************************************)
MessageRow(d) ==
    [id |-> Cardinality(chat_messages) + 1,
     profile_id |-> DictGet(d, "profile_id", JNull),
     user_id |-> DictGet(d, "user_id", JNull),
     message_type |-> DictGet(d, "message_type", JNull),
     message_content |-> DictGet(d, "message_content", JNull),
     language |-> DictGet(d, "language", JStr("zh")),
     user_role |-> DictGet(d, "user_role", JNull),
     created_at |-> CurrentTimestamp]

MessageBound ==
    {"profile_id", "user_id", "message_type", "message_content", "language",
     "user_role"}
MessageNotNull == {"profile_id", "user_id", "message_type", "message_content"}

SaveChatMessageError(b) ==
    IF ~b.isobj THEN "AttributeError"
    ELSE IF \E f \in MessageBound : ~Bindable(MessageRow(b.d)[f])
      THEN "ProgrammingError"
    ELSE IF \E f \in MessageNotNull : MessageRow(b.d)[f] = JNull
      THEN "IntegrityError"
    ELSE "none"

SaveChatMessage(b) ==
    /\ Cardinality(chat_messages) < MaxMessages
    /\ request' = Req("save_chat_message", JNull, b)
    /\ IF ~db
         THEN /\ response' = Unavailable("save_chat_message")
              /\ UNCHANGED messageVars
         ELSE IF SaveChatMessageError(b) # "none"
         THEN /\ response' = Failure("save_chat_message", 500, SaveChatMessageError(b))
              /\ UNCHANGED messageVars
         ELSE /\ chat_messages' = chat_messages \cup {MessageRow(b.d)}
              /\ response' = Message("save_chat_message", "Message saved successfully")
    /\ UNCHANGED <<envVars, clientVars, clock, userVars, profileVars, statVars, backupVars>>

(***************************************************************************)
(* GET /api/messages/<profile_id>?limit=N                                  *)
(***************************************************************************)
\* SQL LIMIT n: a negative n is no limit
Limit(s, n) == IF n < 0 \/ n >= Len(s) THEN s ELSE SubSeq(s, 1, n)

GetChatMessages(profile_id, limit_arg) ==
    /\ request' = Req("get_chat_messages", profile_id, limit_arg)
    /\ IF ~db THEN response' = Unavailable("get_chat_messages")
       ELSE \E s \in DescOrders({r \in chat_messages : r.profile_id = JStr(profile_id)}) :
               response' = Data("get_chat_messages",
                                Limit(s, ArgGet(limit_arg, DefaultLimit)))
    /\ UNCHANGED <<envVars, clientVars, clock, userVars, profileVars, messageVars, statVars,
                   backupVars>>

(***************************************************************************)
(* POST /api/stats                                                         *)
(***************************************************************************)
StatRow(d) ==
    [id |-> Cardinality(usage_stats) + 1,
     user_id |-> DictGet(d, "user_id", JNull),
     profile_id |-> DictGet(d, "profile_id", JNull),
     action_type |-> DictGet(d, "action_type", JNull),
     action_details |-> JStr(JsonDumps(DictGet(d, "action_details", JEmptyDict))),
     created_at |-> CurrentTimestamp]

StatBound == {"user_id", "profile_id", "action_type", "action_details"}
StatNotNull == {"user_id", "action_type"}

SaveUsageStatError(b) ==
    IF ~b.isobj THEN "AttributeError"
    ELSE IF \E f \in StatBound : ~Bindable(StatRow(b.d)[f]) THEN "ProgrammingError"
    ELSE IF \E f \in StatNotNull : StatRow(b.d)[f] = JNull THEN "IntegrityError"
    ELSE "none"

SaveUsageStat(b) ==
    /\ Cardinality(usage_stats) < MaxStats
    /\ request' = Req("save_usage_stat", JNull, b)
    /\ IF ~db
         THEN /\ response' = Unavailable("save_usage_stat")
              /\ UNCHANGED statVars
         ELSE IF SaveUsageStatError(b) # "none"
         THEN /\ response' = Failure("save_usage_stat", 500, SaveUsageStatError(b))
              /\ UNCHANGED statVars
         ELSE /\ usage_stats' = usage_stats \cup {StatRow(b.d)}
              /\ response' = Message("save_usage_stat", "Usage stat saved successfully")
    /\ UNCHANGED <<envVars, clientVars, clock, userVars, profileVars, messageVars, backupVars>>

(***************************************************************************)
(* GET /api/stats?days=N                                                   *)
(*   WHERE created_at >= datetime('now', '-N days')                        *)
(*   GROUP BY DATE(created_at), action_type ORDER BY date DESC             *)
(* datetime() is NULL, and the comparison with it never true, when the     *)
(* modifier is malformed ('--1 days' for a negative N) or the result lies  *)
(* before the first instant SQLite represents, EpochDays days before       *)
(* clock 0.                                                                *)
(***************************************************************************)
DateOf(t) == t \div SecondsPerDay

NoDatetime == -1 - EpochDays * SecondsPerDay

Cutoff(days) ==
    IF days < 0 \/ clock - days * SecondsPerDay < -(EpochDays * SecondsPerDay)
      THEN NoDatetime
      ELSE clock - days * SecondsPerDay

SelectedStats(days) ==
    {r \in usage_stats : Cutoff(days) # NoDatetime /\ r.created_at.t >= Cutoff(days)}

StatGroups(rows) ==
    {[date |-> DateOf(r.created_at.t),
      action_type |-> r.action_type,
      count |-> Cardinality({q \in rows : /\ DateOf(q.created_at.t) = DateOf(r.created_at.t)
                                          /\ q.action_type = r.action_type})] :
        r \in rows}

\* every order ORDER BY date DESC can give the groups in
DateDescOrders(groups) ==
    {s \in [1..Cardinality(groups) -> groups] :
        /\ \A g \in groups : \E i \in DOMAIN s : s[i] = g
        /\ \A i, j \in DOMAIN s : i < j => s[i].date >= s[j].date}

GetUsageStats(days_arg) ==
    /\ request' = Req("get_usage_stats", JNull, days_arg)
    /\ IF ~db THEN response' = Unavailable("get_usage_stats")
       ELSE \E s \in DateDescOrders(StatGroups(SelectedStats(ArgGet(days_arg, DefaultDays)))) :
               response' = Data("get_usage_stats", s)
    /\ UNCHANGED <<envVars, clientVars, clock, userVars, profileVars, messageVars, statVars,
                   backupVars>>

(***************************************************************************)
(* GET /health and GET /                                                   *)
(***************************************************************************)
HealthCheck ==
    /\ request' = Req("health_check", JNull, NotObj)
    /\ response' =
          IF db
            THEN Resp("health_check", 200,
                      [status |-> "healthy",
                       database_path |-> "db_path",
                       user_count |-> Cardinality(users),
                       profile_count |-> Cardinality(user_profiles),
                       message_count |-> Cardinality(chat_messages),
                       timestamp |-> IsoNow])
            ELSE Resp("health_check", 500,
                      [status |-> "unhealthy",
                       error |-> "Database not initialized",
                       timestamp |-> IsoNow])
    /\ UNCHANGED <<envVars, clientVars, clock, userVars, profileVars, messageVars, statVars,
                   backupVars>>

Root ==
    /\ request' = Req("root", JNull, NotObj)
    /\ response' =
          Resp("root", 200,
               [service |-> "AI Study Advisor Database Service",
                status |-> "running",
                version |-> "1.0.0",
                timestamp |-> IsoNow,
                endpoints |-> <<"/health", "/api/users", "/api/profiles",
                                "/api/messages", "/api/stats", "/api/backup">>])
    /\ UNCHANGED <<envVars, clientVars, clock, userVars, profileVars, messageVars, statVars,
                   backupVars>>

(***************************************************************************)
(* DatabaseClient (src/database_client.py).                                *)
(***************************************************************************)
\* the names the module imports: os is not among them
ClientImports == {"requests", "json", "logging"}

DefaultServiceUrl == "https://ai-study-advisor-database.zeabur.app"

\* os.getenv(name, default)
GetEnv(default) == IF environ # "" THEN environ ELSE default

\* DatabaseClient(base_url): base_url is "" for None or the empty string.
\* `base_url or os.getenv(...)` evaluates os.getenv only for a false base_url,
\* and the name os is then looked up among the module's globals.
Constructed(base_url) ==
    IF base_url # ""
      THEN [state |-> "constructed", arg |-> base_url, base_url |-> base_url]
    ELSE IF "os" \notin ClientImports
      THEN [state |-> "raised", arg |-> base_url, error |-> "NameError"]
    ELSE [state |-> "constructed", arg |-> base_url,
          base_url |-> GetEnv(DefaultServiceUrl)]

Construct(base_url) ==
    /\ client' = Constructed(base_url)
    /\ result' = [kind |-> "none"]
    /\ UNCHANGED <<envVars, clock, userVars, profileVars, messageVars, statVars,
                   backupVars, request, response>>

\* what the HTTP exchange gives: no response (a connection error, a timeout,
\* too many redirects), or a final response with a status and a body
NoResponse == [kind |-> "no_response"]
HttpResponse(status, body) == [kind |-> "response", status |-> status, body |-> body]

\* response.json() of a body: ok = FALSE where it raises
DecodedBody(body) ==
    CASE body = "ok_envelope"   -> [ok |-> TRUE, val |-> [ok |-> TRUE, data |-> "data"]]
      [] body = "fail_envelope" -> [ok |-> TRUE, val |-> [ok |-> FALSE, error |-> "error"]]
      [] body = "other_json"    -> [ok |-> TRUE, val |-> [status |-> "healthy"]]
      [] OTHER                  -> [ok |-> FALSE, val |-> [ok |-> FALSE, error |-> "none"]]

Returned(value) == [kind |-> "returned", value |-> value]
Raised(exc) == [kind |-> "raised", value |-> [ok |-> FALSE, error |-> exc]]
ErrorEnvelope(exc) == Returned([ok |-> FALSE, error |-> exc])

\* _make_request without its `except Exception` clause
MakeRequestUncaught(method, http) ==
    IF method \notin {"GET", "POST", "PUT"} THEN Raised("ValueError")
    ELSE IF http.kind = "no_response" THEN ErrorEnvelope("ConnectionError")
    ELSE IF http.status \in 400..599 THEN ErrorEnvelope("HTTPError")
    ELSE IF ~DecodedBody(http.body).ok THEN Raised("ValueError")
    ELSE Returned(DecodedBody(http.body).val)

\* _make_request: raise_for_status() raises for a 4xx or 5xx status only;
\* every exception is caught and turned into an envelope
MakeRequest(method, http) ==
    IF method \notin {"GET", "POST", "PUT"} THEN ErrorEnvelope("ValueError")
    ELSE IF http.kind = "no_response" THEN ErrorEnvelope("ConnectionError")
    ELSE IF http.status \in 400..599 THEN ErrorEnvelope("HTTPError")
    ELSE IF ~DecodedBody(http.body).ok THEN ErrorEnvelope("JSONDecodeError")
    ELSE Returned(DecodedBody(http.body).val)

\* the HTTP method each client method passes to _make_request
ClientMethods ==
    [health_check |-> "GET", save_user |-> "POST", get_user |-> "GET",
     get_user_profiles |-> "GET", save_user_profile |-> "POST",
     get_user_profile |-> "GET", update_user_profile |-> "PUT",
     save_chat_message |-> "POST", get_chat_messages |-> "GET",
     save_usage_stat |-> "POST", get_usage_stats |-> "GET", create_backup |-> "POST"]

\* a caller calls method m of a constructed client
Call(m, http) ==
    /\ client.state = "constructed"
    /\ result' = [call |-> m, method |-> ClientMethods[m], http |-> http]
                    @@ MakeRequest(ClientMethods[m], http)
    /\ UNCHANGED <<envVars, client, clock, userVars, profileVars, messageVars, statVars,
                   backupVars, request, response>>

\* a caller calls _make_request itself, with any method
CallMakeRequest(method, http) ==
    /\ client.state = "constructed"
    /\ result' = [call |-> "_make_request", method |-> method, http |-> http]
                    @@ MakeRequest(method, http)
    /\ UNCHANGED <<envVars, client, clock, userVars, profileVars, messageVars, statVars,
                   backupVars, request, response>>

(***************************************************************************)
(* The wall clock advances.                                                *)
(***************************************************************************)
Tick(max) ==
    /\ clock < max
    /\ clock' = clock + 1
    /\ UNCHANGED <<envVars, clientVars, userVars, profileVars, messageVars, statVars, backupVars,
                   request, response>>

(***************************************************************************)
(* Request inputs.                                                         *)
(***************************************************************************)
UserIds == {"u1", "u2"}

UserPayloads ==
    { EmptyDict,
      [email |-> JStr("e1"), name |-> JStr("n1"), avatar |-> JStr("a1"),
       provider |-> JStr("github")],
      [name |-> JStr("n2")],
      [email |-> JStr("e2"), provider |-> JNull],
      [name |-> JList(<<>>)] }

UserBodies ==
    {Obj(("userId" :> JStr(u)) @@ p) : u \in UserIds, p \in UserPayloads}
    \cup {Obj(p) : p \in UserPayloads}
    \cup {Obj(("userId" :> JNull) @@ p) : p \in UserPayloads}
    \cup {NotObj}

ProfileIds == {"p1", "p2"}

US == JStr(<<"U", "S">>)
UK == JStr(<<"U", "K">>)
\* a string with the characters json.dumps escapes, and some of JSON's own
Odd == JStr(<<"\"", "\\", NonAscii, ",", "]">>)

CountryLists == {<<>>, <<US, UK>>, <<UK, US>>, <<US, Odd, US>>}

ProfileKeys(p) ==
    [profile_id |-> JStr(p), user_id |-> JStr("u1"), user_role |-> JStr("student")]

FullProfile(p) ==
    [profile_id |-> JStr(p), user_id |-> JStr("u1"), user_role |-> JStr("parent"),
     student_name |-> JStr("s"), student_email |-> JStr("s@x"),
     parent_name |-> JStr("pa"), parent_email |-> JStr("pa@x"),
     relationship |-> JStr("mother"), child_name |-> JStr("c"),
     child_email |-> JStr("c@x"), citizenship |-> JStr("TW"), gpa |-> JNum(3),
     degree |-> JStr("BSc"), countries |-> JList(<<US, UK>>), budget |-> JNum(1000),
     target_intake |-> JStr("2026")]

BadProfileBodies ==
    { NotObj,
      Obj([user_id |-> JStr("u1"), user_role |-> JStr("student")]),
      Obj([profile_id |-> JStr("p1"), user_id |-> JStr("u1")]),
      Obj([profile_id |-> JStr("p1"), user_id |-> JStr("u1"),
           user_role |-> JStr("student"), budget |-> JList(<<>>)]) }

ProfileBodies ==
    {Obj(ProfileKeys(p) @@ [countries |-> JList(L)]) : p \in ProfileIds, L \in CountryLists}
    \cup {Obj(ProfileKeys(p)) : p \in ProfileIds}
    \cup {Obj(FullProfile("p1"))}
    \cup BadProfileBodies

(***************************************************************************)
(* Initial state: the module has been imported; DatabaseManager() either   *)
(* succeeded (tables created, empty) or raised (db = None).  ws is the set *)
(* of file-system configurations considered, es the set of values of       *)
(* DATABASE_SERVICE_URL.                                                   *)
(***************************************************************************)
BootFiles(ws, es, fs) ==
    /\ db \in BOOLEAN
    /\ writable \in ws
    /\ environ \in es
    /\ client = [state |-> "none"]
    /\ result = [kind |-> "none"]
    /\ clock = 0
    /\ users = {}
    /\ users_seq = 0
    /\ user_profiles = {}
    /\ profiles_seq = 0
    /\ chat_messages = {}
    /\ usage_stats = {}
    /\ backup_files \in fs
    /\ posted_users = EmptyDict
    /\ posted_countries = EmptyDict
    /\ nupdates = 0
    /\ backup_log = <<>>
    /\ backup_outcome = "none"
    /\ test_write = [d \in BackupDirNames |-> FALSE]
    /\ workers = [w \in Workers |-> IdleWorker]
    /\ request = Req("none", JNull, NotObj)
    /\ response = Resp("none", 0, EmptyDict)

\* the service starts with no backup file in any candidate directory
Boot(ws, es) == BootFiles(ws, es, {[d \in BackupDirNames |-> {}]})

Init == Boot([BackupDirNames -> BOOLEAN], {""})

\* every candidate directory writable
InitWritable == Boot({[d \in BackupDirNames |-> TRUE]}, {""})

\* the client's environment with and without DATABASE_SERVICE_URL
InitClient == Boot({[d \in BackupDirNames |-> TRUE]}, {"", "http://db.internal"})

(***************************************************************************)
(* The users endpoints.                                                    *)
(***************************************************************************)
NextUsers ==
    \/ \E b \in UserBodies : SaveUser(b)
    \/ \E u \in UserIds : GetUser(u)
    \/ Tick(MaxClock)

SpecUsers == InitWritable /\ [][NextUsers]_vars

(***************************************************************************)
(* Saving and reading profiles.                                            *)
(***************************************************************************)
NextProfiles ==
    \/ \E b \in ProfileBodies : SaveUserProfile(b, "ok")
    \/ \E p \in ProfileIds : GetUserProfile(p)
    \/ \E u \in UserIds : GetUserProfiles(u)
    \/ Tick(MaxClock)

SpecProfiles == InitWritable /\ [][NextProfiles]_vars

(***************************************************************************)
(* Updating profiles: one full and one minimal profile are saved, and PUT  *)
(* bodies name no field, one field, several fields or an unknown field.    *)
(***************************************************************************)
PutValue(f) ==
    CASE f = "countries" -> JList(<<UK, Odd>>)
      [] f = "budget"    -> JNum(5000)
      [] f = "gpa"       -> JNum(4)
      [] OTHER           -> JStr("new")

PutBody(S) == [f \in S |-> PutValue(f)]

UpdateBodies ==
    {Obj(PutBody({f})) : f \in UpdatableFields}
    \cup { Obj(EmptyDict),
           Obj([nickname |-> JStr("x")]),
           Obj(PutBody({"budget", "countries"}) @@ [nickname |-> JStr("x")]),
           Obj(PutBody(UpdatableFields)),
           Obj([user_role |-> JNull]),
           Obj([student_name |-> JList(<<>>), budget |-> JNum(5000)]),
           NotObj }

NextProfileUpdate ==
    \/ \E b \in {Obj(FullProfile("p1")), Obj(ProfileKeys("p2"))} : SaveUserProfile(b, "ok")
    \/ \E p \in ProfileIds \cup {"p9"}, b \in UpdateBodies : UpdateUserProfile(p, b)
    \/ \E p \in ProfileIds : GetUserProfile(p)
    \/ Tick(MaxUpdateClock)

SpecProfileUpdate == InitWritable /\ [][NextProfileUpdate]_vars

(***************************************************************************)
(* Chat messages.                                                          *)
(***************************************************************************)
MessageBodies ==
    { Obj([profile_id |-> JStr("p1"), user_id |-> JStr("u1"),
           message_type |-> JStr("user"), message_content |-> JStr("hi")]),
      Obj([profile_id |-> JStr("p1"), user_id |-> JStr("u1"),
           message_type |-> JStr("ai"), message_content |-> JStr("hello"),
           language |-> JStr("en"), user_role |-> JStr("student")]),
      Obj([profile_id |-> JStr("p2"), user_id |-> JStr("u1"),
           message_type |-> JStr("user"), message_content |-> JStr("hi")]),
      Obj([profile_id |-> JStr("p1"), user_id |-> JStr("u1"),
           message_type |-> JStr("user")]),
      NotObj }

LimitArgs == {ArgAbsent, ArgJunk, ArgInt(-1), ArgInt(0), ArgInt(1), ArgInt(2)}

NextMessages ==
    \/ \E b \in MessageBodies : SaveChatMessage(b)
    \/ \E p \in ProfileIds, n \in LimitArgs : GetChatMessages(p, n)
    \/ Tick(MaxMessageClock)

SpecMessages == InitWritable /\ [][NextMessages]_vars

(***************************************************************************)
(* Usage statistics.                                                       *)
(***************************************************************************)
StatBodies ==
    { Obj([user_id |-> JStr("u1"), action_type |-> JStr("login")]),
      Obj([user_id |-> JStr("u1"), profile_id |-> JStr("p1"),
           action_type |-> JStr("chat"), action_details |-> JStr(<<"x">>)]),
      Obj([user_id |-> JStr("u1")]),
      NotObj }

DaysArgs ==
    {ArgAbsent, ArgJunk, ArgInt(-1), ArgInt(0), ArgInt(1), ArgInt(2 * EpochDays)}

NextStats ==
    \/ \E b \in StatBodies : SaveUsageStat(b)
    \/ \E n \in DaysArgs : GetUsageStats(n)
    \/ Tick(MaxStatClock)

SpecStats == InitWritable /\ [][NextStats]_vars

(***************************************************************************)
(* Backups on request, the file system doing as asked.                     *)
(***************************************************************************)
NextBackup ==
    \/ Backup("ok")
    \/ Tick(MaxBackupClock)

SpecBackup == Init /\ [][NextBackup]_vars

(***************************************************************************)
(* Backups that fail: profiles are saved and backups requested while the   *)
(* file system refuses the directories, the copy or a removal.             *)
(***************************************************************************)
BackupIo == {"ok", "copy_fails", "remove_fails"}

\* the backup files an earlier run of the service left in a directory that
\* outlives it: KeepBackups files, stamped before this run's clock 0
EarlierBackups == {0 - i : i \in 1..KeepBackups}

InitBackupFailure ==
    BootFiles([BackupDirNames -> BOOLEAN], {""},
              {[d \in BackupDirNames |-> {}], [d \in BackupDirNames |-> EarlierBackups]})

NextBackupFailure ==
    \/ \E b \in {Obj(FullProfile("p1")), Obj(ProfileKeys("p2"))}, io \in BackupIo :
          SaveUserProfile(b, io)
    \/ /\ Len(backup_log) < MaxFailBackups
       /\ \E io \in BackupIo : Backup(io)
    \/ Tick(MaxFailClock)

SpecBackupFailure == InitBackupFailure /\ [][NextBackupFailure]_vars

(***************************************************************************)
(* The countries of a profile: saved and updated with a list, with a JSON  *)
(* value that is no list, or not at all, and read back.                    *)
(***************************************************************************)
CountryValues == {JList(<<US, UK>>), JList(<<>>), US, JNum(5), JNull, JEmptyDict}

CountryBodies ==
    {Obj(ProfileKeys("p1") @@ [countries |-> v]) : v \in CountryValues}
    \cup {Obj(ProfileKeys("p1")), Obj(ProfileKeys("p2"))}

NextCountries ==
    \/ \E b \in CountryBodies : SaveUserProfile(b, "ok")
    \/ \E p \in ProfileIds, v \in CountryValues :
          UpdateUserProfile(p, Obj([countries |-> v]))
    \/ \E p \in ProfileIds : GetUserProfile(p)
    \/ \E u \in UserIds : GetUserProfiles(u)
    \/ Tick(MaxUpdateClock)

SpecCountries == InitWritable /\ [][NextCountries]_vars

(***************************************************************************)
(* Required fields: users and profiles are saved with complete bodies and  *)
(* with bodies that lack a required key, over rows that exist already.     *)
(***************************************************************************)
\* request bodies without the userId key save_user reads
UserBodiesLacking ==
    { Obj(EmptyDict),
      Obj([name |-> JStr("n2")]),
      Obj([user_id |-> JStr("u1"), email |-> JStr("e2")]) }

\* request bodies without one of the keys save_user_profile needs
Lacking(d, k) == [f \in DOMAIN d \ {k} |-> d[f]]

ProfileBodiesLacking ==
    {Obj(Lacking(d, k)) : d \in {ProfileKeys("p1"), FullProfile("p1")},
                          k \in {"profile_id", "user_id", "user_role"}}

NextRequired ==
    \/ \E b \in {Obj([userId |-> JStr("u1"), name |-> JStr("n1")])} \cup UserBodiesLacking :
          SaveUser(b)
    \/ \E b \in {Obj(FullProfile("p1")), Obj(ProfileKeys("p2"))} \cup ProfileBodiesLacking :
          SaveUserProfile(b, "ok")
    \/ \E u \in UserIds : GetUser(u)
    \/ \E q \in ProfileIds : GetUserProfile(q)
    \/ Tick(MaxUpdateClock)

SpecRequired == InitWritable /\ [][NextRequired]_vars

(***************************************************************************)
(* Backups requested by several clients at once, in directories an earlier *)
(* run may have left backups in.                                           *)
(***************************************************************************)
NextConcurrentBackup ==
    \/ \E w \in Workers : BackupStart(w)
    \/ \E w \in Workers : BackupProbe(w)
    \/ \E w \in Workers : BackupRemoveTest(w)
    \/ \E w \in Workers : BackupCopy(w)
    \/ \E w \in Workers : BackupList(w)
    \/ \E w \in Workers : BackupPrune(w)
    \/ \E w \in Workers : BackupReturn(w)
    \/ Tick(MaxFailClock)

SpecConcurrentBackup == InitBackupFailure /\ [][NextConcurrentBackup]_vars

(***************************************************************************)
(* Saving again: a user and the profiles of one user are saved, saved      *)
(* again under the same key, and listed.                                   *)
(***************************************************************************)
NextResave ==
    \/ /\ users_seq < MaxResaveUsers
       /\ profiles_seq = 0
       /\ \E b \in {Obj([userId |-> JStr("u1"), name |-> JStr("n1")]),
                     Obj([userId |-> JStr("u2")])} : SaveUser(b)
    \/ /\ profiles_seq < MaxResaves
       /\ \E b \in {Obj(ProfileKeys("p1")), Obj(ProfileKeys("p2"))} :
             SaveUserProfileRequest(b, "ok")
    \/ \E u \in UserIds : GetUser(u)
    \/ GetUserProfiles("u1")
    \/ Tick(MaxClock)

SpecResave == InitWritable /\ [][NextResave]_vars

(***************************************************************************)
(* Every endpoint of the service.  A handler reads and writes the table of *)
(* its own resource only (health_check counts rows), so the writes of one  *)
(* resource are explored while the tables of the others are still empty.   *)
(***************************************************************************)
UsersEmpty == users_seq = 0
ProfilesEmpty == profiles_seq = 0 /\ nupdates = 0
MessagesEmpty == chat_messages = {}
StatsEmpty == usage_stats = {}
BackupsEmpty == backup_log = <<>>

\* the number of writes served so far (a saved profile's backup is not counted anew)
Writes ==
    users_seq + profiles_seq + nupdates + Cardinality(chat_messages)
    + Cardinality(usage_stats) + (IF ProfilesEmpty THEN Len(backup_log) ELSE 0)

NextAll ==
    \/ /\ Writes < MaxAllWrites
       /\ ProfilesEmpty /\ MessagesEmpty /\ StatsEmpty /\ BackupsEmpty
       /\ \E b \in { Obj([userId |-> JStr("u1"), name |-> JStr("n1")]),
                     Obj([name |-> JStr("n1")]),
                     NotObj } : SaveUser(b)
    \/ /\ Writes < MaxAllWrites
       /\ UsersEmpty /\ MessagesEmpty /\ StatsEmpty
       /\ \/ \E b \in {Obj(FullProfile("p1")), Obj(ProfileKeys("p2"))} \cup BadProfileBodies :
                SaveUserProfile(b, "ok")
          \/ \E p \in {"p1", "p9"},
                b \in {Obj(PutBody({"budget"})), Obj([user_role |-> JNull]), NotObj} :
                UpdateUserProfile(p, b)
    \/ /\ Writes < MaxAllWrites
       /\ UsersEmpty /\ ProfilesEmpty /\ StatsEmpty /\ BackupsEmpty
       /\ \E b \in MessageBodies : SaveChatMessage(b)
    \/ /\ Writes < MaxAllWrites
       /\ UsersEmpty /\ ProfilesEmpty /\ MessagesEmpty /\ BackupsEmpty
       /\ \E b \in StatBodies : SaveUsageStat(b)
    \/ /\ Writes < MaxAllWrites
       /\ UsersEmpty /\ ProfilesEmpty /\ MessagesEmpty /\ StatsEmpty
       /\ Backup("ok")
    \/ \E u \in UserIds : GetUser(u)
    \/ \E u \in UserIds : GetUserProfiles(u)
    \/ \E p \in ProfileIds : GetUserProfile(p)
    \/ \E p \in ProfileIds, n \in {ArgAbsent, ArgInt(1)} : GetChatMessages(p, n)
    \/ \E n \in {ArgAbsent, ArgInt(0)} : GetUsageStats(n)
    \/ HealthCheck
    \/ Root
    \/ Tick(MaxAllClock)

SpecAll == Init /\ [][NextAll]_vars

(***************************************************************************)
(* The client: constructed with or without a base URL, then called against *)
(* a network and a server that may answer anything.                        *)
(***************************************************************************)
HttpOutcomes ==
    {NoResponse}
    \cup {HttpResponse(st, body) :
            st \in {200, 201, 300, 404, 500},
            body \in {"ok_envelope", "fail_envelope", "other_json", "not_json"}}

NextClient ==
    \/ \E u \in {"", "http://localhost:5000"} : Construct(u)
    \/ \E m \in DOMAIN ClientMethods, http \in HttpOutcomes : Call(m, http)
    \/ \E method \in {"GET", "DELETE"}, http \in HttpOutcomes : CallMakeRequest(method, http)

SpecClient == InitClient /\ [][NextClient]_vars

(***************************************************************************)
(*                              The claims                                 *)
(***************************************************************************)
Min(a, b) == IF a < b THEN a ELSE b

\* C1: after any sequence of successful POST /api/users requests the users
\* table holds exactly one row per user_id posted, and that row's email, name,
\* avatar and provider are those of the latest request for the user_id: a field
\* the latest request omits is null ('google' for provider), never a value kept
\* from an earlier write.
C1_LatestUserWins ==
    /\ {ValueOf(r.user_id) : r \in users} = DOMAIN posted_users
    /\ \A u \in DOMAIN posted_users :
          /\ Cardinality({r \in users : r.user_id = JStr(u)}) = 1
          /\ \A r \in users :
                r.user_id = JStr(u) =>
                   LET d == posted_users[u]
                   IN /\ r.email = (IF "email" \in DOMAIN d THEN d["email"] ELSE JNull)
                      /\ r.name = (IF "name" \in DOMAIN d THEN d["name"] ELSE JNull)
                      /\ r.avatar = (IF "avatar" \in DOMAIN d THEN d["avatar"] ELSE JNull)
                      /\ r.provider = (IF "provider" \in DOMAIN d THEN d["provider"]
                                       ELSE JStr("google"))

\* a user saved with an email and then saved again without one: one row, the
\* second write's, its email null and its provider the default
C1_Witness ==
    /\ users_seq = 2
    /\ Cardinality(users) = 1
    /\ \E r \in users :
          /\ r.id = 2
          /\ r.name = JStr("n2")
          /\ r.email = JNull
          /\ r.provider = JStr("google")

\* C2: a successful POST /api/profiles with countries = L, a list of strings,
\* followed with no write to that profile in between by GET /api/profiles/<id>,
\* returns countries equal to L: the same elements in the same order.
C2_CountriesRoundTrip ==
    ( /\ response.op = "get_user_profile"
      /\ response.status = 200
      /\ request.key \in DOMAIN posted_countries
      /\ TypeOf(posted_countries[request.key]) = "list" )
    => response.body.data.countries = posted_countries[request.key]

\* a profile read back with a three-element list that repeats an element and
\* holds a string of characters JSON escapes
C2_Witness ==
    /\ response.op = "get_user_profile"
    /\ response.status = 200
    /\ request.key \in DOMAIN posted_countries
    /\ response.body.data.countries = JList(<<US, Odd, US>>)

\* a step of PUT /api/profiles/<id> whose body is a JSON object
PutStep ==
    /\ request'.op = "update_user_profile"
    /\ clock' = clock
    /\ request'.body.isobj

\* row r2 is row r with exactly the recognized fields of body d set to the
\* body's values (countries to its JSON text) and updated_at to the time of
\* the request
OnlyNamedFieldsSet(r, r2, d) ==
    \A c \in DOMAIN r :
       r2[c] = IF c \in UpdatableFields \cap DOMAIN d
                 THEN (IF c = "countries" THEN JStr(JsonDumps(d[c])) ELSE d[c])
               ELSE IF c = "updated_at" THEN [fmt |-> "iso", t |-> clock]
               ELSE r[c]

\* the effect the claim gives a PUT: in the row of that profile_id only the
\* named fields and updated_at change, no row appears or goes, no other table
\* or backup changes
PutEffect ==
    /\ \A r \in user_profiles :
          IF r.profile_id = JStr(request'.key)
            THEN \E r2 \in user_profiles' : OnlyNamedFieldsSet(r, r2, request'.body.d)
            ELSE r \in user_profiles'
    /\ Cardinality(user_profiles') = Cardinality(user_profiles)
    /\ UNCHANGED <<users, users_seq, profiles_seq, chat_messages, usage_stats,
                   backup_files>>

AcceptedByUpdate(d) ==
    /\ \A f \in (UpdatableFields \ {"countries"}) \cap DOMAIN d :
          TypeOf(d[f]) \in {"null", "str", "num"}
    /\ "user_role" \in DOMAIN d => d["user_role"] # JNull

C5_NewestFirst ==
    ( /\ response.op = "get_chat_messages"
      /\ response.status = 200
      /\ ArgGet(request.body, DefaultLimit) >= 0 )
    => LET mine == {r \in chat_messages : r.profile_id = JStr(request.key)}
           data == response.body.data
       IN /\ Len(data) = Min(ArgGet(request.body, DefaultLimit), Cardinality(mine))
          /\ \A i \in DOMAIN data : data[i] \in mine
          /\ \A i, j \in DOMAIN data : i < j => data[i].id > data[j].id
          /\ \A r \in mine :
                (\A i \in DOMAIN data : data[i] # r)
                   => \A i \in DOMAIN data : r.id < data[i].id

\* C6 as claimed: after k successive backups into a writable, initially empty
\* directory it holds min(k, 5) backup files, those created last.
C6_KeepsLastFive ==
    (db /\ FirstWritable # 0) =>
       LET dir == BackupDirs[FirstWritable]
           k == Len(backup_log)
       IN /\ Cardinality(backup_files[dir]) = Min(k, KeepBackups)
          /\ backup_files[dir] =
                {backup_log[i][2] : i \in (k - Min(k, KeepBackups) + 1)..k}

\* C7 as claimed: GET /api/stats?days=N never fails; with days = 0 the result
\* is empty; with days reaching back past the oldest row every row is counted
\* exactly once; the groups come by day, descending.
C7_StatsWindow ==
    (db /\ response.op = "get_usage_stats") =>
       LET days == ArgGet(request.body, DefaultDays)
           data == response.body.data
       IN /\ response.status = 200
          /\ days = 0 => data = <<>>
          /\ (\A r \in usage_stats : clock - r.created_at.t < days * SecondsPerDay) =>
                /\ \A r \in usage_stats :
                      Cardinality({i \in DOMAIN data :
                                      /\ data[i].date = DateOf(r.created_at.t)
                                      /\ data[i].action_type = r.action_type}) = 1
                /\ \A i \in DOMAIN data :
                      data[i].count =
                         Cardinality({r \in usage_stats :
                                         /\ data[i].date = DateOf(r.created_at.t)
                                         /\ data[i].action_type = r.action_type})
          /\ \A i, j \in DOMAIN data : i < j => data[i].date >= data[j].date

\* C3: with the store available, GET /api/profiles/<id> and GET
\* /api/users/<id> for a business key no row holds answer 404 with ok = false,
\* a not-found error string and no data field, and change no table.
C3_MissingKeyIs404 ==
    /\ [](( /\ db
            /\ response.op = "get_user"
            /\ ~ \E r \in users : r.user_id = JStr(request.key) )
          => /\ response.status = 404
             /\ response.body.ok = FALSE
             /\ response.body.error = "User not found"
             /\ "data" \notin DOMAIN response.body)
    /\ [](( /\ db
            /\ response.op = "get_user_profile"
            /\ ~ \E r \in user_profiles : r.profile_id = JStr(request.key) )
          => /\ response.status = 404
             /\ response.body.ok = FALSE
             /\ response.body.error = "Profile not found"
             /\ "data" \notin DOMAIN response.body)
    /\ [][( /\ request'.op \in {"get_user", "get_user_profile"}
            /\ clock' = clock )
          => UNCHANGED <<tables, backup_files>>]_vars

\* profile p1 is stored and p2, which no row holds, was asked for
C3_Witness ==
    /\ db
    /\ response.op = "get_user_profile"
    /\ request.key = "p2"
    /\ response.status = 404
    /\ \E r \in user_profiles : r.profile_id = JStr("p1")

ReadOps ==
    {"get_user", "get_user_profiles", "get_user_profile", "get_chat_messages",
     "get_usage_stats"}
WriteOps ==
    {"save_user", "save_user_profile", "update_user_profile", "save_chat_message",
     "save_usage_stat", "create_backup"}

\* C8 as claimed: every response of every endpoint is a success envelope
\* {ok: true, data: ...} with a 2xx status or a failure envelope
\* {ok: false, error: ...} with a status that is not 2xx.
C8_EveryResponseEnveloped ==
    response.op # "none" =>
       /\ "ok" \in DOMAIN response.body
       /\ \/ /\ response.body.ok
             /\ "data" \in DOMAIN response.body
             /\ response.status \in 200..299
          \/ /\ ~response.body.ok
             /\ "error" \in DOMAIN response.body
             /\ response.status \notin 200..299

\* C8 as amended: every response of an /api endpoint has ok; with ok = true
\* its status is 200 and it carries data (the GET endpoints) or message (the
\* POST and PUT endpoints, which carry no data); with ok = false it carries
\* error and no data and its status is 404 (only the two single-row GETs) or
\* 500 (always so when the store is unavailable).  The responses of /health
\* and / have no ok field: they carry status, with 200, or with 500 and error
\* from /health when the store is unavailable.
C8_ApiResponsesEnveloped ==
    /\ response.op \in ReadOps \cup WriteOps =>
          /\ "ok" \in DOMAIN response.body
          /\ response.body.ok =>
                /\ response.status = 200
                /\ "error" \notin DOMAIN response.body
                /\ IF response.op \in ReadOps
                     THEN "data" \in DOMAIN response.body
                     ELSE /\ "message" \in DOMAIN response.body
                          /\ "data" \notin DOMAIN response.body
          /\ ~response.body.ok =>
                /\ response.status \in {404, 500}
                /\ "error" \in DOMAIN response.body
                /\ "data" \notin DOMAIN response.body
          /\ response.status = 404 => response.op \in {"get_user", "get_user_profile"}
          /\ ~db => response.status = 500
    /\ response.op \in {"health_check", "root"} =>
          /\ "ok" \notin DOMAIN response.body
          /\ "status" \in DOMAIN response.body
          /\ \/ response.status = 200 /\ (response.op = "health_check" => db)
             \/ /\ response.op = "health_check"
                /\ ~db
                /\ response.status = 500
                /\ "error" \in DOMAIN response.body

\* a profile saved: the success response carries message and no data
C8_Witness ==
    /\ response.op = "save_user_profile"
    /\ response.status = 200
    /\ response.body.ok
    /\ "message" \in DOMAIN response.body
    /\ "data" \notin DOMAIN response.body

\* the outcomes of the HTTP call the claim lists as failures
NoBody(http) == http.kind = "no_response" \/ ~DecodedBody(http.body).ok
Non2xx(http) == http.kind = "response" /\ http.status \notin 200..299
ErrorStatus(http) == http.kind = "response" /\ http.status \in 400..599

IsErrorEnvelope(r) ==
    /\ r.kind = "returned"
    /\ DOMAIN r.value = {"ok", "error"}
    /\ r.value.ok = FALSE

\* C9 as claimed: every DatabaseClient method returns instead of raising, and
\* on a connection error, a non-2xx status, a body that is not valid JSON or
\* an unsupported method what it returns is an envelope with ok = false and an
\* error string.
C9_FailureIsEnvelope ==
    result.kind # "none" =>
       /\ result.kind = "returned"
       /\ ( \/ result.method \notin {"GET", "POST", "PUT"}
            \/ NoBody(result.http)
            \/ Non2xx(result.http) ) => IsErrorEnvelope(result)

\* C9 as amended: the same with "a 4xx or 5xx status" for "a non-2xx status";
\* a final 3xx response is not an error to raise_for_status(), and its body,
\* when valid JSON, is returned as it is.
C9_ErrorStatusIsEnvelope ==
    result.kind # "none" =>
       /\ result.kind = "returned"
       /\ ( \/ result.method \notin {"GET", "POST", "PUT"}
            \/ NoBody(result.http)
            \/ ErrorStatus(result.http) ) => IsErrorEnvelope(result)
       /\ ( /\ result.method \in {"GET", "POST", "PUT"}
            /\ ~NoBody(result.http)
            /\ ~ErrorStatus(result.http) )
          => result.value = DecodedBody(result.http.body).val

\* get_user_profile answered 404 with the service's own failure envelope
C9_Witness ==
    /\ result.kind = "returned"
    /\ result.call = "get_user_profile"
    /\ result.http = HttpResponse(404, "fail_envelope")
    /\ result.value = [ok |-> FALSE, error |-> "HTTPError"]

\* C10 as claimed: DatabaseClient() without a base_url succeeds with the value
\* of DATABASE_SERVICE_URL when set and the default deployment host otherwise;
\* with an explicit base_url it uses that URL.
C10_BaseUrlFromEnvironment ==
    client.state # "none" =>
       /\ client.state = "constructed"
       /\ client.base_url =
             IF client.arg # "" THEN client.arg
             ELSE IF environ # "" THEN environ
             ELSE DefaultServiceUrl

\* C11: a backup that finds no writable directory, cannot copy or cannot
\* remove an old backup does not reach the caller: POST /api/profiles with an
\* acceptable body answers its success message with the row stored, and POST
\* /api/backup answers its success message.
C11_BackupFailureSwallowed ==
    /\ ( /\ db
         /\ response.op = "save_user_profile"
         /\ SaveUserProfileError(request.body) = "none" )
       => /\ response.status = 200
          /\ response.body = [ok |-> TRUE, message |-> "Profile saved successfully"]
          /\ \E r \in user_profiles :
                \A f \in ProfileBound \cup {"countries"} :
                   r[f] = ProfileRow(request.body.d)[f]
    /\ ( db /\ response.op = "create_backup" )
       => /\ response.status = 200
          /\ response.body = [ok |-> TRUE, message |-> "Backup created successfully"]

\* a profile was saved although the copy of its backup failed
C11_Witness ==
    /\ response.op = "save_user_profile"
    /\ response.status = 200
    /\ backup_outcome = "copy_failed"
    /\ \E r \in user_profiles : r.profile_id = request.body.d["profile_id"]

\* the countries a read returned for a row, against what the row stores
CountriesReadAsList(returned, stored) ==
    /\ TypeOf(returned) = "list"
    /\ IF Truthy(stored) /\ JsonLoads(ValueOf(stored)).ok
         THEN TypeOf(JsonLoads(ValueOf(stored)).val) = "list"
                 => returned = JsonLoads(ValueOf(stored)).val
         ELSE returned = JList(<<>>)

\* C12: whatever POST /api/profiles and PUT /api/profiles/<id> have left in
\* the countries column, GET /api/profiles/<id> and GET
\* /api/users/<id>/profiles return countries as a list: the decoded list when
\* the stored text is a JSON list, the empty list when the value is missing
\* or is not valid JSON.
C12_CountriesIsList ==
    /\ ( response.op = "get_user_profile" /\ response.status = 200 )
       => \E r \in user_profiles :
             /\ r.profile_id = response.body.data.profile_id
             /\ CountriesReadAsList(response.body.data.countries, r.countries)
    /\ ( response.op = "get_user_profiles" /\ response.status = 200 )
       => \A i \in DOMAIN response.body.data :
             \E r \in user_profiles :
                /\ r.profile_id = response.body.data[i].profile_id
                /\ CountriesReadAsList(response.body.data[i].countries, r.countries)

\* the business keys a table holds
KeysOf(table, key) == {r[key] : r \in table}

\* C13: no request deletes an entity: every step keeps every stored user_id
\* and every stored profile_id, and the numbers of chat_messages and
\* usage_stats rows do not decrease.
C13_NothingDeleted ==
    [][ /\ KeysOf(users, "user_id") \subseteq KeysOf(users', "user_id")
        /\ KeysOf(user_profiles, "profile_id") \subseteq KeysOf(user_profiles', "profile_id")
        /\ Cardinality(chat_messages') >= Cardinality(chat_messages)
        /\ Cardinality(usage_stats') >= Cardinality(usage_stats) ]_vars

\* profile p1 was saved twice: its first row was replaced and its key is kept
C13_Witness ==
    /\ response.op = "save_user_profile"
    /\ response.status = 200
    /\ profiles_seq = 2
    /\ KeysOf(user_profiles, "profile_id") = {JStr("p1")}

\* a POST /api/users step whose body is an object without userId, or a POST
\* /api/profiles step whose body is an object without profile_id, user_id or
\* user_role
PostLackingStep ==
    /\ clock' = clock
    /\ request'.body.isobj
    /\ \/ /\ request'.op = "save_user"
          /\ "userId" \notin DOMAIN request'.body.d
       \/ /\ request'.op = "save_user_profile"
          /\ {"profile_id", "user_id", "user_role"} \ DOMAIN request'.body.d # {}

\* C14: a POST /api/users without the user key, or a POST /api/profiles
\* without profile_id, user_id or user_role, is answered with ok = false and
\* status 500 and changes no table: no row is inserted, the rows that exist
\* keep their values, and no backup is made.
C14_MissingRequiredRejected ==
    [][PostLackingStep =>
          /\ response'.status = 500
          /\ response'.body.ok = FALSE
          /\ "error" \in DOMAIN response'.body
          /\ UNCHANGED <<tables, backupVars>>]_vars

\* profile p1 is stored, with backups made, and a POST for p1 without
\* user_role was refused
C14_Witness ==
    /\ db
    /\ response.op = "save_user_profile"
    /\ response.status = 500
    /\ request.body.isobj
    /\ "user_role" \notin DOMAIN request.body.d
    /\ "profile_id" \in DOMAIN request.body.d
    /\ \E r \in user_profiles :
          r.profile_id = request.body.d["profile_id"] /\ r.user_role = JStr("parent")
    /\ backup_log # <<>>

\* C15: every run of the backup routine writes its backup into the first
\* candidate directory, in the fixed order, that is writable, however the
\* runs of concurrent requests interleave: a run that has copied chose that
\* directory, and a run returns without a directory only when none is
\* writable.
C15_FirstWritableChosen ==
    \A w \in Workers :
       /\ workers[w].pc \in {"list", "prune"}
             => /\ FirstWritable # 0
                /\ workers[w].dir = BackupDirs[FirstWritable]
       /\ ( workers[w].pc = "return" /\ workers[w].dir = "" ) => FirstWritable = 0

\* the row a table holds under a business key
RowOf(table, key, v) == CHOOSE r \in table : r[key] = v

\* a POST step that stored a row: the table, its sequence before and after
\* and the row stored
StoredAsNew(table, table2, seq, key, v) ==
    /\ Cardinality({r \in table2 : r[key] = v}) = 1
    /\ \A r \in table : RowOf(table2, key, v).id > r.id
    /\ RowOf(table2, key, v).id > seq
    /\ RowOf(table2, key, v).created_at.t = clock

\* C16: a POST /api/profiles or POST /api/users for a key that is stored
\* already (as for a new key) stores a row whose id is greater than every id
\* given in that table before and whose created_at is the time of this
\* write, and GET /api/users/<id>/profiles lists by that created_at: a
\* profile comes before every profile whose created_at is earlier.
C16_ResaveIsNewRow ==
    /\ [][( /\ request'.op = "save_user_profile"
            /\ response'.status = 200
            /\ profiles_seq' # profiles_seq )
          => StoredAsNew(user_profiles, user_profiles', profiles_seq, "profile_id",
                         request'.body.d["profile_id"])]_vars
    /\ [][( /\ request'.op = "save_user"
            /\ response'.status = 200
            /\ users_seq' # users_seq )
          => StoredAsNew(users, users', users_seq, "user_id",
                         request'.body.d["userId"])]_vars
    /\ []( ( response.op = "get_user_profiles" /\ response.status = 200 )
           => LET data == response.body.data
              IN /\ \A i \in DOMAIN data : data[i].created_at = 
                       RowOf(user_profiles, "profile_id", data[i].profile_id).created_at
                 /\ \A i, j \in DOMAIN data :
                       data[i].created_at.t > data[j].created_at.t => i < j )

\* p1 was saved, then p2, then p1 again a second later: p1 holds id 3 and is
\* listed before p2
C16_Witness ==
    /\ response.op = "get_user_profiles"
    /\ response.status = 200
    /\ Len(response.body.data) = 2
    /\ response.body.data[1].profile_id = JStr("p1")
    /\ response.body.data[1].id = 3
    /\ response.body.data[2].profile_id = JStr("p2")
    /\ response.body.data[2].id = 2
    /\ response.body.data[1].created_at.t > response.body.data[2].created_at.t

=============================================================================
